---- MODULE Spec2Model ----
(***************************************************************************)
(* CV / job-description matcher: the scorer (calculate_match_score), the   *)
(* interpretation mapper (get_interpretation), the orchestrator            *)
(* (match_cv_with_job) and the HTTP handler (match_cv_job).                *)
(*                                                                         *)
(* Representation.                                                         *)
(*   - A Python str is a sequence of one-character strings, so that        *)
(*     lower(), strip(), `in` (substring), ' '.join and re.search are      *)
(*     computed character by character.                                    *)
(*   - A Python float that the scorer computes is an exact rational        *)
(*     [num, den]; round(x) and round(x, 1) round half to even, as         *)
(*     Python does.  A field rounded to one decimal is held in tenths      *)
(*     (46.7 is 467).  Within the bounds below the exact values and the    *)
(*     IEEE doubles of the program agree.                                  *)
(*   - Optional[T] is a sequence of length at most one: None is <<>>.      *)
(***************************************************************************)
EXTENDS Integers, Sequences, FiniteSets, TLC

VARIABLES
    cv_filename,    \* cv_file.filename of the upload
    job_filename,   \* job_file.filename of the upload
    pc,             \* the statement the request is at
    clock,          \* the wall clock, in ticks
    timestamp,      \* the handler's local: the staging time, formatted
    input_dir,      \* the files staged in INPUT_DIR
    output_dir,     \* the files written completely to OUTPUT_DIR
    cv_text,        \* match_cv_with_job's locals ...
    job_text,
    cv_data,
    job_data,
    score_details,
    result,
    base_filename,
    pdf_output,
    json_output,
    ret,            \* what match_cv_with_job returned: (result, message)
    response,       \* the HTTP response of the handler
    calls           \* how often each external step was invoked

\* ------------------------------------------------------------ bounds
MaxCvSkills == 2
MaxSkills == 3
MaxEdu == 2
MaxExp == 3
MaxBlankExp == 2
MaxYears == 9
MaxClock == 3
TicksPerSecond == 2

\* --------------------------------------------------------- Optional
None == <<>>
Some(x) == <<x>>
Get(o) == o[1]

\* ---------------------------------------------------- str operations
AsciiUpper ==
    <<"A", "B", "C", "D", "E", "F", "G", "H", "I", "J", "K", "L", "M",
      "N", "O", "P", "Q", "R", "S", "T", "U", "V", "W", "X", "Y", "Z">>
AsciiLower ==
    <<"a", "b", "c", "d", "e", "f", "g", "h", "i", "j", "k", "l", "m",
      "n", "o", "p", "q", "r", "s", "t", "u", "v", "w", "x", "y", "z">>
Whitespace == {" ", "\t", "\n", "\r"}
Digits == <<"0", "1", "2", "3", "4", "5", "6", "7", "8", "9">>

UpperSet == {AsciiUpper[i] : i \in DOMAIN AsciiUpper}
LowerOf ==
    [c \in UpperSet |-> AsciiLower[CHOOSE i \in DOMAIN AsciiUpper : AsciiUpper[i] = c]]
LowerChar(c) == IF c \in UpperSet THEN LowerOf[c] ELSE c

\* str.lower()
lower(s) == [i \in 1..Len(s) |-> LowerChar(s[i])]

\* str.strip(): drop the leading and the trailing whitespace
strip(s) ==
    LET keep == {i \in 1..Len(s) : s[i] \notin Whitespace}
    IN  IF keep = {} THEN <<>>
        ELSE LET first == CHOOSE i \in keep : \A j \in keep : i <= j
                 last == CHOOSE i \in keep : \A j \in keep : j <= i
             IN  SubSeq(s, first, last)

\* Python `sub in s` on str: sub occurs in s as a contiguous block
Contains(sub, s) ==
    \E i \in 0..(Len(s) - Len(sub)) : SubSeq(s, i + 1, i + Len(sub)) = sub

\* s.endswith(suffix)
endswith(s, suffix) ==
    /\ Len(suffix) <= Len(s)
    /\ SubSeq(s, Len(s) - Len(suffix) + 1, Len(s)) = suffix

\* ' '.join(list)
RECURSIVE join(_)
join(list) ==
    IF Len(list) = 0 THEN <<>>
    ELSE IF Len(list) = 1 THEN list[1]
    ELSE list[1] \o <<" ">> \o join(Tail(list))

\* [x.lower().strip() for x in list]
normalize(list) == [i \in 1..Len(list) |-> strip(lower(list[i]))]

\* ------------------------------------------------- rational arithmetic
Rat(n, d) == [num |-> n, den |-> d]
RatAdd(a, b) == Rat(a.num * b.den + b.num * a.den, a.den * b.den)
RatLe(a, b) == a.num * b.den <= b.num * a.den
RatMin(a, b) == IF RatLe(a, b) THEN a ELSE b

\* round(): to the nearest integer, a tie to the even one
RoundHalfEven(n, d) ==
    LET q == n \div d
        r == n % d
    IN  IF 2 * r < d THEN q
        ELSE IF 2 * r > d THEN q + 1
        ELSE IF q % 2 = 0 THEN q ELSE q + 1

\* round(x): an integer
round(x) == RoundHalfEven(x.num, x.den)

\* round(x, 1), in tenths
round1(x) == RoundHalfEven(10 * x.num, x.den)

\* ------------------------------------------------------------ scorer
degree_keywords ==
    << <<"b", "a", "c", "h", "e", "l", "o", "r">>,
       <<"m", "a", "s", "t", "e", "r">>,
       <<"p", "h", "d">>,
       <<"d", "i", "p", "l", "o", "m", "a">>,
       <<"d", "e", "g", "r", "e", "e">>,
       <<"b", "s">>,
       <<"m", "s">>,
       <<"c", "o", "m", "p", "u", "t", "e", "r", " ", "s", "c", "i", "e", "n", "c", "e">>,
       <<"d", "a", "t", "a", " ", "s", "c", "i", "e", "n", "c", "e">>,
       <<"m", "a", "t", "h", "e", "m", "a", "t", "i", "c", "s">>,
       <<"e", "n", "g", "i", "n", "e", "e", "r", "i", "n", "g">>,
       <<"s", "t", "a", "t", "i", "s", "t", "i", "c", "s">>,
       <<"a", "i">>,
       <<"a", "r", "t", "i", "f", "i", "c", "i", "a", "l", " ", "i", "n", "t", "e", "l", "l", "i", "g", "e", "n", "c", "e">>,
       <<"m", "a", "c", "h", "i", "n", "e", " ", "l", "e", "a", "r", "n", "i", "n", "g">> >>
k_pursuing == <<"p", "u", "r", "s", "u", "i", "n", "g">>
k_completed == <<"c", "o", "m", "p", "l", "e", "t", "e", "d">>
k_bachelor == <<"b", "a", "c", "h", "e", "l", "o", "r">>
k_university == <<"u", "n", "i", "v", "e", "r", "s", "i", "t", "y">>
k_year == <<"y", "e", "a", "r">>
k_yr == <<"y", "r">>

\* Defect variant: containment tested in one direction only
skill_pair_matches_oneway(req_skill, cv_skill) ==
    Contains(req_skill, cv_skill)

\* req_skill in cv_skill or cv_skill in req_skill
skill_pair_matches(req_skill, cv_skill) ==
    Contains(req_skill, cv_skill) \/ Contains(cv_skill, req_skill)

\* sum(1 for req_skill in required_skills if any(... for cv_skill in cv_skills))
RECURSIVE count_skill_matches(_, _)
count_skill_matches(required_skills, cv_skills) ==
    IF Len(required_skills) = 0 THEN 0
    ELSE (IF \E j \in 1..Len(cv_skills) :
                skill_pair_matches(Head(required_skills), cv_skills[j])
          THEN 1 ELSE 0)
         + count_skill_matches(Tail(required_skills), cv_skills)

\* 1. Skill Match: the score as an exact value
skill_score_of(required_skills, cv_skills) ==
    IF Len(required_skills) > 0
    THEN Rat(count_skill_matches(required_skills, cv_skills) * 70,
             Len(required_skills))
    ELSE Rat(0, 1)

\* for keyword in degree_keywords: if keyword in cv and keyword in job: matches += 1
RECURSIVE count_keyword_matches(_, _, _)
count_keyword_matches(keywords, cv_edu_text, job_qual_text) ==
    IF Len(keywords) = 0 THEN 0
    ELSE (IF Contains(Head(keywords), cv_edu_text)
             /\ Contains(Head(keywords), job_qual_text)
          THEN 1 ELSE 0)
         + count_keyword_matches(Tail(keywords), cv_edu_text, job_qual_text)

Max(a, b) == IF a >= b THEN a ELSE b

\* Defect variant: the rule assigns 18 instead of raising to it
status_rule_overwrite(edu_score, cv_edu_text, job_qual_text) ==
    IF Contains(k_pursuing, job_qual_text) \/ Contains(k_completed, job_qual_text)
    THEN IF Contains(k_bachelor, cv_edu_text) \/ Contains(k_university, cv_edu_text)
         THEN 18
         ELSE edu_score
    ELSE edu_score

\* The pursuing/completed rule applied to the score so far
status_rule(edu_score, cv_edu_text, job_qual_text) ==
    IF Contains(k_pursuing, job_qual_text) \/ Contains(k_completed, job_qual_text)
    THEN IF Contains(k_bachelor, cv_edu_text) \/ Contains(k_university, cv_edu_text)
         THEN Max(edu_score, 18)
         ELSE edu_score
    ELSE edu_score

\* 2. Education/Qualification Match, on the normalized lists
edu_score_of(cv_education, job_qualifications) ==
    IF Len(job_qualifications) > 0
    THEN LET cv_edu_text == lower(join(cv_education))
             has_relevant_education ==
                 \E k \in DOMAIN degree_keywords :
                     Contains(degree_keywords[k], cv_edu_text)
             job_qual_text == lower(join(job_qualifications))
             matches == count_keyword_matches(degree_keywords, cv_edu_text,
                                              job_qual_text)
             base == IF has_relevant_education
                     THEN (IF matches > 0 THEN 20 ELSE 15)
                     ELSE 0
         IN  status_rule(base, cv_edu_text, job_qual_text)
    ELSE 0

DigitSet == {Digits[i] : i \in DOMAIN Digits}
IsDigit(c) == c \in DigitSet
DigitVal(c) == (CHOOSE i \in DOMAIN Digits : Digits[i] = c) - 1

\* int() of a run of decimal digits
RECURSIVE int(_)
int(ds) ==
    IF Len(ds) = 0 THEN 0
    ELSE 10 * int(SubSeq(ds, 1, Len(ds) - 1)) + DigitVal(ds[Len(ds)])

\* (?:year|yr) at position p
UnitAt(s, p) ==
    \/ p + 3 <= Len(s) /\ SubSeq(s, p, p + 3) = k_year
    \/ p + 1 <= Len(s) /\ SubSeq(s, p, p + 1) = k_yr

\* [-\s]?(?:year|yr) at position p
TailAt(s, p) ==
    \/ UnitAt(s, p)
    \/ /\ p <= Len(s)
       /\ s[p] \in ({"-"} \cup Whitespace)
       /\ UnitAt(s, p + 1)

\* The ends e of a group (\d+) = s[i..e] from which the rest of the pattern matches
GroupEnds(s, i) ==
    {e \in i..Len(s) : (\A j \in i..e : IsDigit(s[j])) /\ TailAt(s, e + 1)}

\* re.search(r'(\d+)[-\s]?(?:year|yr)', s): the leftmost start, the longest group
years_match(s) ==
    LET starts == {i \in 1..Len(s) : GroupEnds(s, i) # {}}
    IN  IF starts = {} THEN None
        ELSE LET i == CHOOSE x \in starts : \A y \in starts : x <= y
                 e == CHOOSE x \in GroupEnds(s, i) :
                          \A y \in GroupEnds(s, i) : y <= x
             IN  Some(SubSeq(s, i, e))

\* required_years = int(years_match.group(1)) if years_match else 0
required_years_of(experience_needed) ==
    LET m == years_match(lower(experience_needed))
    IN  IF m # None THEN int(Get(m)) ELSE 0

\* has_relevant_exp = len(' '.join(cv_experience).lower().strip()) > 0
has_relevant_exp_of(cv_experience) ==
    Len(strip(lower(join(cv_experience)))) > 0

\* Defect variant: the proportional score is not capped at 10
experience_score_of_nocap(cv_experience, experience_needed) ==
    LET has_relevant_exp == has_relevant_exp_of(cv_experience)
        required_years == required_years_of(experience_needed)
        num_experiences == Len(cv_experience)
    IN  IF num_experiences > 0 /\ has_relevant_exp
        THEN IF required_years <= 1
             THEN Rat(10, 1)
             ELSE Rat(num_experiences * 10, required_years)
        ELSE IF num_experiences > 0
        THEN Rat(5, 1)
        ELSE Rat(0, 1)

\* Defect variant: the entries are counted without looking at their text
experience_score_of_no_partial(cv_experience, experience_needed) ==
    LET required_years == required_years_of(experience_needed)
        num_experiences == Len(cv_experience)
    IN  IF num_experiences > 0
        THEN IF required_years <= 1
             THEN Rat(10, 1)
             ELSE RatMin(Rat(10, 1), Rat(num_experiences * 10, required_years))
        ELSE Rat(0, 1)

\* 3. Experience Match: the score as an exact value
experience_score_of(cv_experience, experience_needed) ==
    LET has_relevant_exp == has_relevant_exp_of(cv_experience)
        required_years == required_years_of(experience_needed)
        num_experiences == Len(cv_experience)
    IN  IF num_experiences > 0 /\ has_relevant_exp
        THEN IF required_years <= 1
             THEN Rat(10, 1)
             ELSE RatMin(Rat(10, 1), Rat(num_experiences * 10, required_years))
        ELSE IF num_experiences > 0
        THEN Rat(5, 1)
        ELSE Rat(0, 1)

\* total_score = round(skill_score + edu_score + experience_score)
total_score_of(skill_score, edu_score, experience_score) ==
    round(RatAdd(RatAdd(skill_score, Rat(edu_score, 1)), experience_score))

\* calculate_match_score(cv_data, job_data) -> ScoreDetails
calculate_match_score(cv, job) ==
    LET cv_skills == normalize(cv.skills)
        required_skills == normalize(job.required_skills)
        cv_education == normalize(cv.education)
        job_qualifications == normalize(job.qualifications)
        skill_score == skill_score_of(required_skills, cv_skills)
        edu_score == edu_score_of(cv_education, job_qualifications)
        experience_score == experience_score_of(cv.experience,
                                                job.experience_needed)
    IN  [ total_score |-> total_score_of(skill_score, edu_score, experience_score),
          skill_score |-> round1(skill_score),
          education_score |-> round1(Rat(edu_score, 1)),
          experience_score |-> round1(experience_score),
          skill_matches |-> IF Len(required_skills) > 0
                            THEN count_skill_matches(required_skills, cv_skills)
                            ELSE 0,
          total_required_skills |-> Len(required_skills),
          education_match_found |-> edu_score > 0,
          experience_match_found |-> has_relevant_exp_of(cv.experience) ]

\* Defect variant: the bands' lower bounds are open
get_interpretation_open(score) ==
    IF score > 80 THEN "Excellent Match! Highly suitable candidate."
    ELSE IF score > 60 THEN "Good Match! Suitable candidate with room for growth."
    ELSE IF score > 40 THEN "Moderate Match. Some key skills may be missing."
    ELSE "Low Match. Significant skill gaps present."

\* get_interpretation(score)
get_interpretation(score) ==
    IF score >= 80 THEN "Excellent Match! Highly suitable candidate."
    ELSE IF score >= 60 THEN "Good Match! Suitable candidate with room for growth."
    ELSE IF score >= 40 THEN "Moderate Match. Some key skills may be missing."
    ELSE "Low Match. Significant skill gaps present."

\* ------------------------------------------- inputs of the scorer
s_Java == <<"J", "a", "v", "a">>
s_javascript == <<"j", "a", "v", "a", "s", "c", "r", "i", "p", "t">>
s_SQL == <<" ", "S", "Q", "L", " ">>
e_Bachelor == <<"B", "a", "c", "h", "e", "l", "o", "r", " ", "o", "f", " ", "S", "c", "i", "e", "n", "c", "e">>
e_University == <<"U", "n", "i", "v", "e", "r", "s", "i", "t", "y">>
e_Computer == <<"C", "o", "m", "p", "u", "t", "e", "r">>
e_Science == <<"S", "c", "i", "e", "n", "c", "e">>
q_BachelorDegree == <<"B", "a", "c", "h", "e", "l", "o", "r", " ", "d", "e", "g", "r", "e", "e">>
q_Completed == <<"C", "o", "m", "p", "l", "e", "t", "e", "d">>
q_PursuingMS == <<"p", "u", "r", "s", "u", "i", "n", "g", " ", "M", "S">>
q_CS == <<"c", "o", "m", "p", "u", "t", "e", "r", " ", "s", "c", "i", "e", "n", "c", "e">>
q_License == <<"D", "r", "i", "v", "i", "n", "g", " ", "l", "i", "c", "e", "n", "s", "e">>
x_Dev == <<"D", "e", "v", " ", "2", "0", "1", "9">>
x_Blank == <<" ", " ">>
p_Min == <<"M", "i", "n", " ">>
u_Years == <<"Y", "e", "a", "r", "s">>
u_months == <<"m", "o", "n", "t", "h", "s">>
n_Entry == <<"E", "n", "t", "r", "y", " ", "l", "e", "v", "e", "l">>

\* The lists of at most n entries of pool
Lists(pool, n) == UNION {[1..k -> pool] : k \in 0..n}

\* The decimal digits of a natural number
RECURSIVE Decimal(_)
Decimal(n) ==
    IF n < 10 THEN <<Digits[n + 1]>>
    ELSE Decimal(n \div 10) \o <<Digits[(n % 10) + 1]>>

SkillPool == {s_Java, s_javascript, s_SQL, <<>>}
EduPool == {e_Bachelor, e_University, e_Computer, e_Science, <<>>}
QualPool == {q_BachelorDegree, q_Completed, q_PursuingMS, q_CS, <<>>}
ExpPool == {x_Dev, x_Blank, <<>>}

\* "<prefix><n><separator><unit>", and two texts without a number
ExpTexts ==
    {pre \o Decimal(n) \o sep \o unit :
        pre \in {<<>>, p_Min}, n \in 0..MaxYears,
        sep \in {<<>>, <<" ">>, <<"-">>, <<"+", " ">>},
        unit \in {u_Years, k_yr, u_months}}
    \cup {<<>>, n_Entry}

CV(skills, education, experience) ==
    [name |-> "candidate", skills |-> skills, education |-> education,
     experience |-> experience]
Job(required_skills, qualifications, experience_needed) ==
    [required_skills |-> required_skills, qualifications |-> qualifications,
     experience_needed |-> experience_needed]

\* Skills vary, the rest is empty
SkillInputs ==
    \E c \in Lists(SkillPool, MaxCvSkills), r \in Lists(SkillPool, MaxSkills) :
        /\ cv_data = Some(CV(c, <<>>, <<>>))
        /\ job_data = Some(Job(r, <<>>, <<>>))

\* Education and qualifications vary
EduInputs ==
    \E e \in Lists(EduPool, MaxEdu), q \in Lists(QualPool, MaxEdu) :
        /\ cv_data = Some(CV(<<>>, e, <<>>))
        /\ job_data = Some(Job(<<>>, q, <<>>))

\* Experience entries and the experience text vary
ExpInputs ==
    \E x \in Lists(ExpPool, MaxBlankExp), t \in ExpTexts :
        /\ cv_data = Some(CV(<<>>, <<>>, x))
        /\ job_data = Some(Job(<<>>, <<>>, t))

\* All three sub-scores vary together
MixedInputs ==
    \E e \in Lists({e_University, e_Bachelor}, 1),
       x \in Lists({x_Dev}, MaxExp),
       r \in Lists({s_Java, s_SQL}, MaxSkills),
       q \in Lists({q_Completed, q_BachelorDegree, q_License}, 1),
       n \in 0..MaxYears :
        /\ cv_data = Some(CV(<<s_Java>>, e, x))
        /\ job_data = Some(Job(r, q, Decimal(n) \o <<" ">> \o u_Years))

\* ------------------------------------------------- the request
ext_pdf == <<".", "p", "d", "f">>
f_cv_pdf == <<"c", "v", ".", "p", "d", "f">>
f_CV_PDF == <<"C", "V", ".", "P", "D", "F">>
f_cv_txt == <<"c", "v", ".", "t", "x", "t">>
f_pdf == <<"p", "d", "f">>
f_job_pdf == <<"j", "o", "b", ".", "p", "d", "f">>
f_job_docx == <<"j", "o", "b", ".", "d", "o", "c", "x">>
t_0yr == <<"0", " ", "y", "r">>
t_8years == <<"8", " ", "Y", "e", "a", "r", "s">>

CvFilenames == {f_cv_pdf, f_CV_PDF, f_cv_txt, f_pdf}
JobFilenames == {f_job_pdf, f_job_docx}

\* What the language model may return for the CV and for the job description
CvProfiles ==
    { CV(<<s_Java>>, <<e_Bachelor>>, <<x_Dev>>),
      CV(<<s_Java>>, <<>>, <<>>) }
JobProfiles ==
    { Job(<<s_Java>>, <<q_BachelorDegree>>, t_0yr),
      Job(<<s_Java, s_SQL, s_SQL>>, <<>>, t_8years) }

\* What a raised exception's str() may be
ExceptionTexts == {"", "[Errno 28] No space left on device"}

NoCalls ==
    [pdf_read_cv |-> 0, pdf_read_job |-> 0, llm_cv |-> 0, llm_job |-> 0,
     pdf_write |-> 0, json_write |-> 0]

\* datetime.now().strftime("%Y%m%d_%H%M%S"): the clock cut to whole seconds
strftime(now) == now \div TicksPerSecond

\* Defect variant: the extension is compared without lowering the name
is_pdf_case_sensitive(filename) == endswith(filename, ext_pdf)

\* filename.lower().endswith('.pdf')
is_pdf(filename) == endswith(lower(filename), ext_pdf)

\* Python truthiness of an Optional[str]: None and "" are falsy
Falsy(text) == text = None \/ Get(text) = ""

\* Defect variant: only the CV's text is checked
text_extraction_failed_cv_only(cv_t, job_t) == Falsy(cv_t)

\* if not cv_text or not job_text
text_extraction_failed(cv_t, job_t) == Falsy(cv_t) \/ Falsy(job_t)

\* if not cv_data or not job_data
data_extraction_failed(cv_d, job_d) == cv_d = None \/ job_d = None

\* output_file or "Matching failed"
detail_or_default(output_file) ==
    IF output_file = "" THEN "Matching failed" ELSE output_file

\* The state a request starts in, but for the upload's file names
RequestStart ==
    /\ pc = "validate"
    /\ clock = 0
    /\ timestamp = None
    /\ input_dir = {}
    /\ output_dir = {}
    /\ cv_text = None
    /\ job_text = None
    /\ result = None
    /\ base_filename = None
    /\ pdf_output = None
    /\ json_output = None
    /\ ret = None
    /\ response = None
    /\ calls = NoCalls

Init ==
    /\ cv_filename \in CvFilenames
    /\ job_filename \in JobFilenames
    /\ cv_data = None
    /\ job_data = None
    /\ score_details = None
    /\ RequestStart

locals == <<cv_text, job_text, cv_data, job_data, score_details, result,
            base_filename, pdf_output, json_output>>
upload == <<cv_filename, job_filename, timestamp>>

\* The wall clock advances between any two steps of the request
Tick ==
    /\ pc # "done"
    /\ clock < MaxClock
    /\ clock' = clock + 1
    /\ UNCHANGED <<upload, pc, input_dir, output_dir, locals, ret, response, calls>>

\* main.py 53-58: a file name that is not a PDF's is refused
RejectUpload ==
    /\ pc = "validate"
    /\ ~is_pdf(cv_filename) \/ ~is_pdf(job_filename)
    /\ response' = Some([status |-> 400,
                         detail |-> IF ~is_pdf(cv_filename)
                                    THEN "CV file must be a PDF"
                                    ELSE "Job file must be a PDF",
                         body |-> None])
    /\ pc' = "done"
    /\ UNCHANGED <<upload, clock, input_dir, output_dir, locals, ret, calls>>

\* except Exception as e: raise HTTPException(500, f"Error during matching: {str(e)}")
ServerError(e) ==
    Some([status |-> 500, detail |-> "Error during matching: " \o e, body |-> None])

\* main.py 60-71: the staging time is read and the CV is staged
StageCv ==
    /\ pc = "validate"
    /\ is_pdf(cv_filename) /\ is_pdf(job_filename)
    /\ timestamp' = Some(strftime(clock))
    /\ LET cv_path == <<"cv", strftime(clock), cv_filename>>
       IN  \/ /\ input_dir' = input_dir \cup {cv_path}
              /\ pc' = "stage_job"
              /\ UNCHANGED response
           \/ \E e \in ExceptionTexts, partial \in BOOLEAN :
              /\ input_dir' = IF partial THEN input_dir \cup {cv_path} ELSE input_dir
              /\ response' = ServerError(e)
              /\ pc' = "done"
    /\ UNCHANGED <<cv_filename, job_filename, clock, output_dir, locals, ret, calls>>

\* main.py 74-75: the job description is staged
StageJob ==
    /\ pc = "stage_job"
    /\ LET job_path == <<"job", Get(timestamp), job_filename>>
       IN  \/ /\ input_dir' = input_dir \cup {job_path}
              /\ pc' = "extract_cv_text"
              /\ UNCHANGED response
           \/ \E e \in ExceptionTexts, partial \in BOOLEAN :
              /\ input_dir' = IF partial THEN input_dir \cup {job_path} ELSE input_dir
              /\ response' = ServerError(e)
              /\ pc' = "done"
    /\ UNCHANGED <<upload, clock, output_dir, locals, ret, calls>>

\* extract_text_from_pdf: None (the reader raised), "" or the pages' text
TextOutcomes == {None, Some(""), Some("text of the pages")}

Called(step) == [calls EXCEPT ![step] = @ + 1]

\* utilities.py 329: cv_text = extract_text_from_pdf(cv_file_path)
ExtractCvText ==
    /\ pc = "extract_cv_text"
    /\ \E t \in TextOutcomes : cv_text' = t
    /\ calls' = Called("pdf_read_cv")
    /\ pc' = "extract_job_text"
    /\ UNCHANGED <<upload, clock, input_dir, output_dir, job_text, cv_data, job_data,
                   score_details, result, base_filename, pdf_output, json_output,
                   ret, response>>

\* utilities.py 330-333: job_text = extract_text_from_pdf(...), then the check
ExtractJobText ==
    /\ pc = "extract_job_text"
    /\ \E t \in TextOutcomes :
        /\ job_text' = t
        /\ IF text_extraction_failed(cv_text, t)
           THEN /\ ret' = Some([result |-> None,
                                message |-> "Failed to extract text from one or both PDF files"])
                /\ pc' = "respond"
           ELSE /\ ret' = ret
                /\ pc' = "extract_cv_details"
    /\ calls' = Called("pdf_read_job")
    /\ UNCHANGED <<upload, clock, input_dir, output_dir, cv_text, cv_data, job_data,
                   score_details, result, base_filename, pdf_output, json_output,
                   response>>

\* utilities.py 336: cv_data = extract_cv_details(cv_text); None when the model
\* call, the JSON parse or the schema validation raised
ExtractCvDetails ==
    /\ pc = "extract_cv_details"
    /\ \E d \in {None} \cup {Some(p) : p \in CvProfiles} : cv_data' = d
    /\ calls' = Called("llm_cv")
    /\ pc' = "extract_job_details"
    /\ UNCHANGED <<upload, clock, input_dir, output_dir, cv_text, job_text, job_data,
                   score_details, result, base_filename, pdf_output, json_output,
                   ret, response>>

\* utilities.py 337-340: job_data = extract_job_details(job_text), then the check
ExtractJobDetails ==
    /\ pc = "extract_job_details"
    /\ \E d \in {None} \cup {Some(p) : p \in JobProfiles} :
        /\ job_data' = d
        /\ IF data_extraction_failed(cv_data, d)
           THEN /\ ret' = Some([result |-> None,
                                message |-> "Failed to extract data from CV or Job Description"])
                /\ pc' = "respond"
           ELSE /\ ret' = ret
                /\ pc' = "score"
    /\ calls' = Called("llm_job")
    /\ UNCHANGED <<upload, clock, input_dir, output_dir, cv_text, job_text, cv_data,
                   score_details, result, base_filename, pdf_output, json_output,
                   response>>

\* MatchResult(cv_data, job_data, score_details, timestamp, interpretation)
MatchResult(cv, job, details, now) ==
    [cv_data |-> cv, job_data |-> job, score_details |-> details,
     timestamp |-> now,
     interpretation |-> get_interpretation(details.total_score)]

\* utilities.py 343-352: the score and the result object
ScoreStep ==
    /\ pc = "score"
    /\ LET details == calculate_match_score(Get(cv_data), Get(job_data))
       IN  /\ score_details' = Some(details)
           /\ result' = Some(MatchResult(Get(cv_data), Get(job_data), details, clock))
    /\ pc' = "base_filename"
    /\ UNCHANGED <<upload, clock, input_dir, output_dir, cv_text, job_text, cv_data,
                   job_data, base_filename, pdf_output, json_output, ret, response,
                   calls>>

\* f"match_result_{timestamp}"
match_result_name(stamp) == <<"match_result", stamp>>

\* utilities.py 355-356: the base filename, from the clock as it is now
BaseFilename ==
    /\ pc = "base_filename"
    /\ base_filename' = Some(match_result_name(strftime(clock)))
    /\ pc' = "save_pdf"
    /\ UNCHANGED <<upload, clock, input_dir, output_dir, cv_text, job_text, cv_data,
                   job_data, score_details, result, pdf_output, json_output, ret,
                   response, calls>>

\* utilities.py 207-209: the report's path, from the clock as it is now
pdf_filepath(now) == [base |-> match_result_name(strftime(now)), ext |-> "pdf"]

\* utilities.py 314: OUTPUT_DIR / f"{base_filename}.json"
json_filepath(base) == [base |-> base, ext |-> "json"]

\* save_results_to_json's return value when the write raised
EmptyPath == [base |-> None, ext |-> ""]

\* utilities.py 359, 205-305: save_results_to_file; an exception of doc.build
\* reaches match_cv_with_job's except clause (367-368)
SavePdf ==
    /\ pc = "save_pdf"
    /\ calls' = Called("pdf_write")
    /\ \/ /\ output_dir' = output_dir \cup {pdf_filepath(clock)}
          /\ pdf_output' = Some(pdf_filepath(clock))
          /\ pc' = "save_json"
          /\ UNCHANGED ret
       \/ \E e \in ExceptionTexts :
          /\ ret' = Some([result |-> None, message |-> e])
          /\ pc' = "respond"
          /\ UNCHANGED <<output_dir, pdf_output>>
    /\ UNCHANGED <<upload, clock, input_dir, cv_text, job_text, cv_data, job_data,
                   score_details, result, base_filename, json_output, response>>

\* utilities.py 362-365, 307-323: save_results_to_json catches what the write
\* raises and returns ""; match_cv_with_job returns the result either way
SaveJson ==
    /\ pc = "save_json"
    /\ calls' = Called("json_write")
    /\ \/ /\ output_dir' = output_dir \cup {json_filepath(Get(base_filename))}
          /\ json_output' = Some(json_filepath(Get(base_filename)))
       \/ /\ json_output' = Some(EmptyPath)
          /\ UNCHANGED output_dir
    /\ ret' = Some([result |-> result, message |-> "PDF: <pdf_output>, JSON: <json_output>"])
    /\ pc' = "respond"
    /\ UNCHANGED <<upload, clock, input_dir, cv_text, job_text, cv_data, job_data,
                   score_details, result, base_filename, pdf_output, response>>

\* main.py 78-83: match_cv_with_job has returned (match_result, output_file)
Respond ==
    /\ pc = "respond"
    /\ LET match_result == Get(ret).result
           output_file == Get(ret).message
       IN  response' =
               IF match_result = None
               THEN Some([status |-> 500, detail |-> detail_or_default(output_file),
                          body |-> None])
               ELSE Some([status |-> 200, detail |-> "", body |-> match_result])
    /\ pc' = "done"
    /\ UNCHANGED <<upload, clock, input_dir, output_dir, locals, ret, calls>>

vars == <<cv_filename, job_filename, timestamp, pc, clock, input_dir, output_dir,
          cv_text, job_text, cv_data, job_data, score_details, result,
          base_filename, pdf_output, json_output, ret, response, calls>>

Next ==
    \/ Tick
    \/ RejectUpload
    \/ StageCv
    \/ StageJob
    \/ ExtractCvText
    \/ ExtractJobText
    \/ ExtractCvDetails
    \/ ExtractJobDetails
    \/ ScoreStep
    \/ BaseFilename
    \/ SavePdf
    \/ SaveJson
    \/ Respond

Spec == Init /\ [][Next]_vars

\* --------------------------------------------- the scorer, applied
\* The scorer alone, on each input of the families above
InitScore ==
    /\ SkillInputs \/ EduInputs \/ ExpInputs \/ MixedInputs
    /\ score_details = None
    /\ cv_filename = f_cv_pdf
    /\ job_filename = f_job_pdf
    /\ RequestStart

\* score_details = calculate_match_score(cv_data, job_data)
Score ==
    /\ score_details = None
    /\ score_details' = Some(calculate_match_score(Get(cv_data), Get(job_data)))
    /\ UNCHANGED <<upload, pc, clock, input_dir, output_dir, cv_text, job_text,
                   cv_data, job_data, result, base_filename, pdf_output,
                   json_output, ret, response, calls>>

NextScore == Score
SpecScore == InitScore /\ [][NextScore]_vars

\* ======================================================== the claims
Scored == score_details # None
details == Get(score_details)
the_cv == Get(cv_data)
the_job == Get(job_data)

\* C1: every sub-score of a returned ScoreDetails lies in its range (skill
\* 0..70, education 0..20, experience 0..10, held in tenths) and total_score
\* is an integer in 0..100.
C1_ScoreBounds ==
    Scored =>
        /\ 0 <= details.skill_score /\ details.skill_score <= 700
        /\ 0 <= details.education_score /\ details.education_score <= 200
        /\ 0 <= details.experience_score /\ details.experience_score <= 100
        /\ details.total_score \in 0..100

\* C1 witness: a scored pair that reaches every upper bound at once
C1_Witness ==
    /\ Scored
    /\ details.skill_score = 700
    /\ details.education_score = 200
    /\ details.experience_score = 100
    /\ details.total_score = 100

\* C2: total_score is round() of the sum of the three sub-score fields of the
\* same record (the fields as returned, rounded to one decimal).
C2_TotalIsRoundOfFields ==
    Scored =>
        details.total_score =
            RoundHalfEven(details.skill_score + details.education_score
                          + details.experience_score, 10)

\* Python `sub in s`, stated by the offset a of the occurrence
Occurs(sub, s) ==
    \E a \in 0..Len(s) :
        /\ a + Len(sub) <= Len(s)
        /\ \A i \in 1..Len(sub) : s[a + i] = sub[i]

\* The required skills (by position) that some candidate skill satisfies
MatchedRequired ==
    LET cs == normalize(the_cv.skills)
        rs == normalize(the_job.required_skills)
    IN  {i \in 1..Len(rs) :
            \E j \in 1..Len(cs) : Occurs(rs[i], cs[j]) \/ Occurs(cs[j], rs[i])}

\* C3: skill_matches counts the required skills that contain, or are contained
\* in, some candidate skill (trimmed, lowercased; a candidate skill is not
\* consumed); skill_score is matches / total * 70 to one decimal; with no
\* required skills the score and both counts are 0.
C3_SkillMatching ==
    Scored =>
        LET total == Len(the_job.required_skills)
        IN  /\ details.total_required_skills = total
            /\ details.skill_matches = Cardinality(MatchedRequired)
            /\ total > 0 =>
                  details.skill_score =
                      RoundHalfEven(Cardinality(MatchedRequired) * 700, total)
            /\ total = 0 =>
                  /\ details.skill_score = 0
                  /\ details.skill_matches = 0
                  /\ details.total_required_skills = 0

\* C3 witness: one candidate skill satisfies two required skills, a third
\* required skill is not matched
C3_Witness ==
    /\ Scored
    /\ Len(the_cv.skills) = 1
    /\ details.total_required_skills = 3
    /\ details.skill_matches = 2
    /\ details.skill_score = 467

\* The blobs the education rule reads
CvEduBlob == lower(join(normalize(the_cv.education)))
JobQualBlob == lower(join(normalize(the_job.qualifications)))
KeywordInCv == \E k \in DOMAIN degree_keywords : Occurs(degree_keywords[k], CvEduBlob)
KeywordInBoth ==
    \E k \in DOMAIN degree_keywords :
        Occurs(degree_keywords[k], CvEduBlob) /\ Occurs(degree_keywords[k], JobQualBlob)
StatusRuleApplies ==
    /\ Occurs(k_pursuing, JobQualBlob) \/ Occurs(k_completed, JobQualBlob)
    /\ Occurs(k_bachelor, CvEduBlob) \/ Occurs(k_university, CvEduBlob)
KeywordScore == IF KeywordInCv THEN (IF KeywordInBoth THEN 20 ELSE 15) ELSE 0

\* C4: with no qualifications the education score is 0; otherwise it is 15 for
\* a keyword in the candidate blob, 20 if a keyword is in both blobs, and then
\* max(score, 18) exactly when the job blob has pursuing/completed and the
\* candidate blob has bachelor/university.  It is one of 0, 15, 18, 20 and
\* the rule never lowers it.
C4_EducationPolicy ==
    Scored =>
        /\ details.education_score \in {0, 150, 180, 200}
        /\ Len(the_job.qualifications) = 0 => details.education_score = 0
        /\ Len(the_job.qualifications) > 0 =>
              /\ details.education_score >= 10 * KeywordScore
              /\ StatusRuleApplies =>
                    details.education_score = 10 * Max(KeywordScore, 18)
              /\ ~StatusRuleApplies =>
                    details.education_score = 10 * KeywordScore

\* C4 witness: the pursuing/completed rule applies to a score of 20 and
\* leaves it at 20
C4_Witness ==
    /\ Scored
    /\ Len(the_job.qualifications) > 0
    /\ StatusRuleApplies
    /\ KeywordScore = 20
    /\ details.education_score = 200

\* The cases of the experience score the claim is about
EntryCount == Len(the_cv.experience)
RequiredYears == required_years_of(the_job.experience_needed)
EntriesBlank ==
    \A i \in 1..Len(the_cv.experience) :
        \A j \in 1..Len(the_cv.experience[i]) :
            the_cv.experience[i][j] \in Whitespace
Proportional == round1(RatMin(Rat(10, 1), Rat(EntryCount * 10, RequiredYears)))

\* C5 as claimed: three cases decide the experience score, and no input takes
\* the partial credit of 5.
C5_ThreeCases ==
    Scored =>
        /\ EntryCount = 0 => details.experience_score = 0
        /\ EntryCount > 0 /\ RequiredYears <= 1 => details.experience_score = 100
        /\ EntryCount > 0 /\ RequiredYears > 1 =>
              details.experience_score = Proportional

\* C5 as amended: a non-empty list whose entries are all empty or whitespace
\* takes the partial credit of 5, whatever the required years; the three
\* cases hold for the other lists.
C5_FourCases ==
    Scored =>
        /\ EntryCount = 0 => details.experience_score = 0
        /\ EntryCount > 0 /\ EntriesBlank => details.experience_score = 50
        /\ EntryCount > 0 /\ ~EntriesBlank /\ RequiredYears <= 1 =>
              details.experience_score = 100
        /\ EntryCount > 0 /\ ~EntriesBlank /\ RequiredYears > 1 =>
              details.experience_score = Proportional

\* C5 witness: blank entries, a requirement of more than one year, and the
\* partial credit
C5_Witness ==
    /\ Scored
    /\ EntryCount > 0
    /\ EntriesBlank
    /\ RequiredYears > 1
    /\ details.experience_score = 50

\* ------------------------------------------ the claims on a request
TextFailed ==
    \/ cv_text \in {None, Some("")}
    \/ job_text \in {None, Some("")}
NothingScoredOrWritten ==
    /\ score_details = None
    /\ result = None
    /\ output_dir = {}
    /\ calls.pdf_write = 0
    /\ calls.json_write = 0
Returned == pc \in {"respond", "done"} /\ ret # None

\* C6: the stages run in order and the first failure ends the request: after
\* a failed text extraction no model call is made, nothing is scored or
\* written and (None, message) is returned; after a failed structured
\* extraction nothing is scored or written and (None, message) is returned;
\* no external step is invoked more than once.
C6_FirstFailureWins ==
    /\ \A step \in DOMAIN calls : calls[step] <= 1
    /\ calls.pdf_read_job = 1 /\ TextFailed =>
          /\ calls.llm_cv = 0
          /\ calls.llm_job = 0
          /\ NothingScoredOrWritten
          /\ ret = Some([result |-> None,
                         message |-> "Failed to extract text from one or both PDF files"])
    /\ calls.llm_job = 1 /\ (cv_data = None \/ job_data = None) =>
          /\ NothingScoredOrWritten
          /\ ret = Some([result |-> None,
                         message |-> "Failed to extract data from CV or Job Description"])
    /\ calls.pdf_read_job = 1 => calls.pdf_read_cv = 1
    /\ calls.llm_cv = 1 => calls.pdf_read_job = 1
    /\ calls.llm_job = 1 => calls.llm_cv = 1
    /\ score_details # None => calls.llm_job = 1
    /\ calls.pdf_write = 1 => score_details # None
    /\ calls.json_write = 1 => calls.pdf_write = 1

\* C6 witness: the CV's text was extracted, the job's was not, and the
\* request has been answered
C6_Witness ==
    /\ pc = "done"
    /\ cv_text = Some("text of the pages")
    /\ job_text = None
    /\ Returned
    /\ Get(ret).result = None

\* C7: a MatchResult is returned only after both the report and the JSON
\* file were written completely to the output directory.
C7_AllOrNothing ==
    Returned /\ Get(ret).result # None =>
        /\ \E f \in output_dir : f.ext = "pdf"
        /\ \E f \in output_dir : f.ext = "json"

\* The file name ends in .pdf, whatever the case of its letters
EndsInPdf(f) ==
    /\ Len(f) >= 4
    /\ f[Len(f) - 3] = "."
    /\ f[Len(f) - 2] \in {"p", "P"}
    /\ f[Len(f) - 1] \in {"d", "D"}
    /\ f[Len(f)] \in {"f", "F"}
BadUpload == ~EndsInPdf(cv_filename) \/ ~EndsInPdf(job_filename)

\* C8: an upload with a file name that does not end in .pdf is answered 400
\* with nothing staged and match_cv_with_job not invoked; every other failure
\* is answered 500 with a non-empty detail; 200 carries a complete
\* MatchResult.
C8_HandlerStatus ==
    /\ BadUpload =>
          /\ input_dir = {}
          /\ timestamp = None
          /\ calls = NoCalls
          /\ ret = None
          /\ response # None => Get(response).status = 400
    /\ response # None =>
          LET r == Get(response)
          IN  /\ r.status \in {200, 400, 500}
              /\ r.status = 400 => BadUpload /\ r.detail # ""
              /\ r.status = 500 => r.detail # "" /\ r.body = None
              /\ ~BadUpload /\ (ret = None \/ Get(ret).result = None) =>
                    r.status = 500
              /\ r.status = 200 =>
                    /\ ret # None
                    /\ r.body = Get(ret).result
                    /\ r.body # None
                    /\ Get(r.body).cv_data = the_cv
                    /\ Get(r.body).job_data = the_job
                    /\ Get(r.body).score_details = details

\* C8 witness: the report's write raised an exception with an empty text,
\* and the request was answered 500
C8_Witness ==
    /\ response # None
    /\ Get(response).status = 500
    /\ ret = Some([result |-> None, message |-> ""])

\* The band of a score, by its interval
Band(score) ==
    IF score \in 80..100 THEN "Excellent Match! Highly suitable candidate."
    ELSE IF score \in 60..79 THEN "Good Match! Suitable candidate with room for growth."
    ELSE IF score \in 40..59 THEN "Moderate Match. Some key skills may be missing."
    ELSE "Low Match. Significant skill gaps present."

\* C9: get_interpretation maps every score in 0..100 to the band of its
\* interval (80.., 60..79, 40..59, 0..39), and the interpretation of a
\* MatchResult is that of its own total_score.
C9_Interpretation ==
    /\ \A score \in 0..100 : get_interpretation(score) = Band(score)
    /\ result # None =>
          /\ Get(result).score_details.total_score \in 0..100
          /\ Get(result).interpretation = Band(Get(result).score_details.total_score)
    /\ response # None /\ Get(response).status = 200 =>
          Get(Get(response).body).interpretation =
              Band(Get(Get(response).body).score_details.total_score)

\* C9 witness: a returned MatchResult in the band that starts at 80
C9_Witness ==
    /\ response # None
    /\ Get(response).status = 200
    /\ Get(Get(response).body).score_details.total_score >= 80
    /\ Get(Get(response).body).interpretation
           = "Excellent Match! Highly suitable candidate."

\* C10: the report and the JSON file of a request carry the same base name.
C10_SameBaseName ==
    /\ pdf_output # None
    /\ json_output # None
    /\ Get(json_output) \in output_dir
    => Get(pdf_output).base = Get(json_output).base

====
